---- MODULE Spec2Model ----
(***************************************************************************)
(* The retry engine of the `retryable` crate: the Retryable executor with  *)
(* its RetryStrategy, and the retry! / retryable! macros that expand to a  *)
(* retry loop.  Durations are in milliseconds.                             *)
(***************************************************************************)
EXTENDS Integers, Sequences, FiniteSets, TLC

\* ----- bounds of the model ------------------------------------------------
\* the retry counts a call site may pass: 0..MaxRetries
MaxRetries == 4
\* the delays (seconds) a call site may pass: 0..MaxDelaySecs
MaxDelaySecs == 3
\* succeed_after!(count): count in 0..MaxCount
MaxCount == 4
\* thread::sleep may return up to MaxOversleep ms late
MaxOversleep == 1
\* try_call(&mut self) calls made on one Retryable instance
MaxSessions == 2

\* ----- Duration -----------------------------------------------------------
Duration_from_millis(ms) == ms

Duration_from_secs(s) == s * 1000

\* ----- RetryDelay / RetryStrategy -----------------------------------------
Fixed(d) == [kind |-> "Fixed", d |-> d]

RetryStrategy_new(r, delay) == [retries |-> r, delay |-> delay]

with_retries_from_default(s, r) == [retries |-> r, delay |-> [kind |-> "Fixed", d |-> 2000]]

with_retries(s, r) == [s EXCEPT !.retries = r]

with_delay(s, delay) == [s EXCEPT !.delay = delay]

RetryStrategy_default == [retries |-> 3, delay |-> Fixed(Duration_from_secs(2))]

\* the macros that run no Retryable hold no strategy
NoStrategy == [retries |-> 0, delay |-> Fixed(0)]

next_run_time_immediate(s) == 0

next_run_time(s) == s.delay.d

\* ----- the operation ------------------------------------------------------
OpKinds == {"always_fail", "succeed_after", "sometimes_fail", "may_panic"}

ErrVals == {"e1", "e2"}

NoRes == [ok |-> FALSE, val |-> "none", at |-> 0]

Ok(n) == [ok |-> TRUE, val |-> "unit", at |-> n]

Err(v, n) == [ok |-> FALSE, val |-> v, at |-> n]

VARIABLES
    form,        \* the entry point the caller used
    argR, argD,  \* the retries / delay (seconds) written at the call site
    inline,      \* the operation expression is written inside the macro call
    opKind,      \* the operation wrapped
    opCount,     \* succeed_after!(opCount)
    iter,        \* items left in the closure's _iter
    strategy,    \* Retryable.strategy
    pc,          \* position of the caller / the loop
    retries,     \* the loop's local counter
    delay_time,  \* the loop's local delay
    res,         \* the loop's local result
    result,      \* what the call returned
    calls,       \* invocations of the operation in this call
    waited,      \* total duration handed to thread::sleep in this call
    elapsed,     \* time passed since the call started
    trace,       \* the sleeps and invocations of this call, in order
    session,     \* number of try_call calls started on the instance
    lastR,       \* {n} after with_retries(n) or new(n, _), {} while never set
    lastD        \* {s} after with_delay(Fixed(s sec)) or new(_, ..), {} while never set

vars == <<form, argR, argD, inline, opKind, opCount, iter, strategy, pc, retries,
          delay_time, res, result, calls, waited, elapsed, trace, session,
          lastR, lastD>>

callSite == <<form, argR, argD, inline>>
opConst == <<opKind, opCount>>
ghosts == <<calls, waited, elapsed, trace>>
builder == <<lastR, lastD>>

Init ==
    /\ form = "none"
    /\ argR = 0
    /\ argD = 0
    /\ inline = FALSE
    /\ opKind \in OpKinds
    /\ opCount \in 0..MaxCount
    /\ (opKind # "succeed_after" => opCount = 0)
    /\ iter = opCount
    /\ strategy = NoStrategy
    /\ pc = "start"
    /\ retries = 0
    /\ delay_time = 0
    /\ res = NoRes
    /\ result = NoRes
    /\ calls = 0
    /\ waited = 0
    /\ elapsed = 0
    /\ trace = <<>>
    /\ session = 0
    /\ lastR = {}
    /\ lastD = {}

\* ----- the operation's outcomes -------------------------------------------
\* succeed_after!: Err(()) while _iter.next() is some, Ok(()) afterwards
succeed_after(it, n) == IF it > 0 THEN Err("unit", n) ELSE Ok(n)

\* the results one invocation (the n-th of this call) can return, given _iter
Outcomes(kind, it, n) ==
    CASE kind = "always_fail" -> {Err(v, n) : v \in ErrVals}
      [] kind = "succeed_after" -> {succeed_after(it, n)}
      [] OTHER -> {Ok(n)} \cup {Err(v, n) : v \in ErrVals}

IterNext(kind, it) == IF kind = "succeed_after" /\ it > 0 THEN it - 1 ELSE it

\* ----- building a strategy and a Retryable by hand ------------------------
StrategyDefault ==
    /\ pc = "start"
    /\ pc' = "building"
    /\ form' = "direct"
    /\ strategy' = RetryStrategy_default
    /\ lastR' = {}
    /\ lastD' = {}
    /\ UNCHANGED <<argR, argD, inline, opConst, iter, retries, delay_time, res,
                   result, ghosts, session>>

StrategyNew ==
    /\ pc = "start"
    /\ \E r \in 0..MaxRetries, d \in 0..MaxDelaySecs :
          /\ strategy' = RetryStrategy_new(r, Fixed(Duration_from_secs(d)))
          /\ lastR' = {r}
          /\ lastD' = {d}
    /\ pc' = "building"
    /\ form' = "direct"
    /\ UNCHANGED <<argR, argD, inline, opConst, iter, retries, delay_time, res,
                   result, ghosts, session>>

WithRetries ==
    /\ pc = "building"
    /\ \E r \in 0..MaxRetries :
          /\ strategy' = with_retries(strategy, r)
          /\ lastR' = {r}
    /\ UNCHANGED lastD
    /\ UNCHANGED <<callSite, opConst, iter, pc, retries, delay_time, res,
                   result, ghosts, session>>

WithDelay ==
    /\ pc = "building"
    /\ \E d \in 0..MaxDelaySecs :
          /\ strategy' = with_delay(strategy, Fixed(Duration_from_secs(d)))
          /\ lastD' = {d}
    /\ UNCHANGED lastR
    /\ UNCHANGED <<callSite, opConst, iter, pc, retries, delay_time, res,
                   result, ghosts, session>>

Retryable_new ==
    /\ pc = "building"
    /\ pc' = "ready"
    /\ UNCHANGED <<callSite, opConst, iter, strategy, retries, delay_time, res,
                   result, ghosts, session>>
    /\ UNCHANGED builder

\* ----- Retryable::try_call ------------------------------------------------
EnterTryCall_extra_retry(s) ==
    /\ retries' = s.retries + 1
    /\ delay_time' = Duration_from_millis(0)
    /\ res' = NoRes
    /\ result' = NoRes
    /\ calls' = 0
    /\ waited' = 0
    /\ elapsed' = 0
    /\ trace' = <<>>
    /\ session' = session + 1
    /\ pc' = "sleep"

EnterTryCall_delayed_start(s) ==
    /\ retries' = s.retries
    /\ delay_time' = s.delay.d
    /\ res' = NoRes
    /\ result' = NoRes
    /\ calls' = 0
    /\ waited' = 0
    /\ elapsed' = 0
    /\ trace' = <<>>
    /\ session' = session + 1
    /\ pc' = "sleep"

\* the locals of try_call before the loop
EnterTryCall(s) ==
    /\ retries' = s.retries
    /\ delay_time' = Duration_from_millis(0)
    /\ res' = NoRes
    /\ result' = NoRes
    /\ calls' = 0
    /\ waited' = 0
    /\ elapsed' = 0
    /\ trace' = <<>>
    /\ session' = session + 1
    /\ pc' = "sleep"

try_call_any_owner ==
    /\ pc \in {"ready", "done"}
    /\ session < MaxSessions
    /\ EnterTryCall(strategy)
    /\ UNCHANGED <<callSite, opConst, iter, strategy>>
    /\ UNCHANGED builder

try_call ==
    /\ pc \in {"ready", "done"}
    /\ form = "direct"
    /\ session < MaxSessions
    /\ EnterTryCall(strategy)
    /\ UNCHANGED <<callSite, opConst, iter, strategy>>
    /\ UNCHANGED builder

Sleep ==
    /\ pc = "sleep"
    /\ waited' = waited + delay_time
    /\ \E late \in 0..MaxOversleep : elapsed' = elapsed + delay_time + late
    /\ trace' = Append(trace, [ev |-> "sleep", d |-> delay_time])
    /\ pc' = "call"
    /\ UNCHANGED <<callSite, opConst, iter, strategy, retries, delay_time, res,
                   result, calls, session>>
    /\ UNCHANGED builder

Invoke_catches_panic ==
    /\ pc = "call"
    /\ calls' = calls + 1
    /\ iter' = IterNext(opKind, iter)
    /\ \/ /\ \E r \in Outcomes(opKind, iter, calls + 1) :
                /\ res' = r
                /\ trace' = Append(trace, [ev |-> IF r.ok THEN "ok" ELSE "err", d |-> 0])
          /\ pc' = "check"
       \/ /\ opKind = "may_panic"
          /\ res' = Err("e1", calls + 1)
          /\ trace' = Append(trace, [ev |-> "panic", d |-> 0])
          /\ pc' = "check"
    /\ UNCHANGED <<callSite, opConst, strategy, retries, delay_time, result,
                   waited, elapsed, session>>
    /\ UNCHANGED builder

Invoke ==
    /\ pc = "call"
    /\ calls' = calls + 1
    /\ iter' = IterNext(opKind, iter)
    /\ \/ /\ \E r \in Outcomes(opKind, iter, calls + 1) :
                /\ res' = r
                /\ trace' = Append(trace, [ev |-> IF r.ok THEN "ok" ELSE "err", d |-> 0])
          /\ pc' = "check"
       \/ /\ opKind = "may_panic"
          /\ res' = res
          /\ trace' = Append(trace, [ev |-> "panic", d |-> 0])
          /\ pc' = "panicked"
    /\ UNCHANGED <<callSite, opConst, strategy, retries, delay_time, result,
                   waited, elapsed, session>>
    /\ UNCHANGED builder

\* Result::is_ok
is_ok_never(r) == FALSE

is_ok(r) == r.ok

\* if retries > 0
has_retries_above_one(r) == r > 1

has_retries_or_zero(r) == r >= 0

has_retries(r) == r > 0

Check_no_decrement ==
    /\ pc = "check"
    /\ IF is_ok(res)
         THEN /\ result' = res
              /\ pc' = "done"
              /\ UNCHANGED <<retries, delay_time>>
         ELSE IF has_retries(retries)
           THEN /\ retries' = retries
                /\ delay_time' = next_run_time(strategy)
                /\ pc' = "sleep"
                /\ UNCHANGED result
           ELSE /\ result' = res
                /\ pc' = "done"
                /\ UNCHANGED <<retries, delay_time>>
    /\ UNCHANGED <<callSite, opConst, iter, strategy, res, ghosts, session>>
    /\ UNCHANGED builder

Check_fatal_kind ==
    /\ pc = "check"
    /\ IF is_ok(res) \/ res.val = "e2"
         THEN /\ result' = res
              /\ pc' = "done"
              /\ UNCHANGED <<retries, delay_time>>
         ELSE IF has_retries(retries)
           THEN /\ retries' = retries - 1
                /\ delay_time' = next_run_time(strategy)
                /\ pc' = "sleep"
                /\ UNCHANGED result
           ELSE /\ result' = res
                /\ pc' = "done"
                /\ UNCHANGED <<retries, delay_time>>
    /\ UNCHANGED <<callSite, opConst, iter, strategy, res, ghosts, session>>
    /\ UNCHANGED builder

Check_consumes_strategy ==
    /\ pc = "check"
    /\ IF is_ok(res)
         THEN /\ result' = res
              /\ pc' = "done"
              /\ UNCHANGED <<retries, delay_time, strategy>>
         ELSE IF has_retries(retries)
           THEN /\ retries' = retries - 1
                /\ strategy' = [strategy EXCEPT !.retries = retries - 1]
                /\ delay_time' = next_run_time(strategy)
                /\ pc' = "sleep"
                /\ UNCHANGED result
           ELSE /\ result' = res
                /\ pc' = "done"
                /\ UNCHANGED <<retries, delay_time, strategy>>
    /\ UNCHANGED <<callSite, opConst, iter, res, ghosts, session>>
    /\ UNCHANGED builder

Check ==
    /\ pc = "check"
    /\ IF is_ok(res)
         THEN /\ result' = res
              /\ pc' = "done"
              /\ UNCHANGED <<retries, delay_time>>
         ELSE IF has_retries(retries)
           THEN /\ retries' = retries - 1
                /\ delay_time' = next_run_time(strategy)
                /\ pc' = "sleep"
                /\ UNCHANGED result
           ELSE /\ result' = res
                /\ pc' = "done"
                /\ UNCHANGED <<retries, delay_time>>
    /\ UNCHANGED <<callSite, opConst, iter, strategy, res, ghosts, session>>
    /\ UNCHANGED builder

\* ----- retryable! ---------------------------------------------------------
\* ($f:expr; retries=$r:expr)
retryable_retries(r) == with_retries(RetryStrategy_default, r)

\* ($f:expr; delay=$d:expr)
retryable_delay(d) == with_delay(RetryStrategy_default, Fixed(Duration_from_secs(d)))

\* ($f:expr; retries=$r:expr; delay=$d:expr): $r is not used by the expansion
retryable_retries_delay(r, d) ==
    with_delay(RetryStrategy_default, Fixed(Duration_from_secs(d)))

retryable_closure_immediate == with_delay(retryable_retries(3), Fixed(0))

\* ($f:expr) expands to retryable!($f; retries = 3)
retryable_closure == retryable_retries(3)

\* each rule builds _strategy, wraps $f in a Retryable and calls try_call
RetryableRetries ==
    /\ pc = "start"
    /\ \E r \in 0..MaxRetries :
          /\ argR' = r
          /\ strategy' = retryable_retries(r)
    /\ form' = "retryable_r"
    /\ EnterTryCall(strategy')
    /\ UNCHANGED <<argD, inline, opConst, iter>>
    /\ UNCHANGED builder

RetryableDelay ==
    /\ pc = "start"
    /\ \E d \in 0..MaxDelaySecs :
          /\ argD' = d
          /\ strategy' = retryable_delay(d)
    /\ form' = "retryable_d"
    /\ EnterTryCall(strategy')
    /\ UNCHANGED <<argR, inline, opConst, iter>>
    /\ UNCHANGED builder

RetryableRetriesDelay ==
    /\ pc = "start"
    /\ \E r \in 0..MaxRetries, d \in 0..MaxDelaySecs :
          /\ argR' = r
          /\ argD' = d
          /\ strategy' = retryable_retries_delay(r, d)
    /\ form' = "retryable_rd"
    /\ EnterTryCall(strategy')
    /\ UNCHANGED <<inline, opConst, iter>>
    /\ UNCHANGED builder

RetryableClosure ==
    /\ pc = "start"
    /\ strategy' = retryable_closure
    /\ form' = "retryable"
    /\ EnterTryCall(strategy')
    /\ UNCHANGED <<argR, argD, inline, opConst, iter>>
    /\ UNCHANGED builder

\* ----- retry! -------------------------------------------------------------
\* let mut retries = $r; the expansion has no strategy and never sleeps
EnterRetry(r) ==
    /\ retries' = r
    /\ delay_time' = 0
    /\ res' = NoRes
    /\ result' = NoRes
    /\ calls' = 0
    /\ waited' = 0
    /\ elapsed' = 0
    /\ trace' = <<>>
    /\ session' = session + 1
    /\ pc' = "r_call"

\* an operation expression written in the macro call sits inside the loop body
InlineChoice == IF opKind = "succeed_after" THEN BOOLEAN ELSE {FALSE}

\* ($( $args ),+ ; retries=$r:literal)
RetryRetries ==
    /\ pc = "start"
    /\ \E r \in 0..MaxRetries :
          /\ argR' = r
          /\ EnterRetry(r)
    /\ inline' \in InlineChoice
    /\ form' = "retry_r"
    /\ UNCHANGED <<argD, opConst, iter, strategy>>
    /\ UNCHANGED builder

\* ($( $args ),+) expands to retry!($args; retries = 3)
retry_default == 3

RetryDefault_through_retryable ==
    /\ pc = "start"
    /\ strategy' = RetryStrategy_default
    /\ EnterTryCall(strategy')
    /\ inline' \in InlineChoice
    /\ form' = "retry"
    /\ UNCHANGED <<argR, argD, opConst, iter>>
    /\ UNCHANGED builder

RetryDefault ==
    /\ pc = "start"
    /\ EnterRetry(retry_default)
    /\ inline' \in InlineChoice
    /\ form' = "retry"
    /\ UNCHANGED <<argR, argD, opConst, iter, strategy>>
    /\ UNCHANGED builder

\* let res = _wrapper!($args): the expression $f is evaluated, then called
RetryInvoke ==
    /\ pc = "r_call"
    /\ calls' = calls + 1
    /\ iter' = IF inline THEN iter ELSE IterNext(opKind, iter)
    /\ \/ /\ \E r \in Outcomes(opKind, IF inline THEN opCount ELSE iter, calls + 1) :
                /\ res' = r
                /\ trace' = Append(trace, [ev |-> IF r.ok THEN "ok" ELSE "err", d |-> 0])
          /\ pc' = "r_check"
       \/ /\ opKind = "may_panic"
          /\ res' = res
          /\ trace' = Append(trace, [ev |-> "panic", d |-> 0])
          /\ pc' = "panicked"
    /\ UNCHANGED <<callSite, opConst, strategy, retries, delay_time, result,
                   waited, elapsed, session>>
    /\ UNCHANGED builder

RetryCheck ==
    /\ pc = "r_check"
    /\ IF res.ok
         THEN /\ result' = res
              /\ pc' = "done"
              /\ UNCHANGED retries
         ELSE IF retries > 0
           THEN /\ retries' = retries - 1
                /\ pc' = "r_call"
                /\ UNCHANGED result
           ELSE /\ result' = res
                /\ pc' = "done"
                /\ UNCHANGED retries
    /\ UNCHANGED <<callSite, opConst, iter, strategy, delay_time, res, ghosts,
                   session>>
    /\ UNCHANGED builder

Next ==
    \/ StrategyDefault
    \/ StrategyNew
    \/ WithRetries
    \/ WithDelay
    \/ Retryable_new
    \/ try_call
    \/ Sleep
    \/ Invoke
    \/ Check
    \/ RetryableRetries
    \/ RetryableDelay
    \/ RetryableRetriesDelay
    \/ RetryableClosure
    \/ RetryRetries
    \/ RetryDefault
    \/ RetryInvoke
    \/ RetryCheck

Spec == Init /\ [][Next]_vars

\* the loop steps run on the caller's thread, which keeps executing
FairSpec ==
    /\ Spec
    /\ WF_vars(Sleep)
    /\ WF_vars(Invoke)
    /\ WF_vars(Check)
    /\ WF_vars(RetryInvoke)
    /\ WF_vars(RetryCheck)

\* ----- vocabulary of the properties ---------------------------------------
TryCallForms == {"direct", "retryable", "retryable_r", "retryable_d", "retryable_rd"}

RetryForms == {"retry", "retry_r"}

\* try_call is between its first statement and its return
Attempting == pc \in {"sleep", "call", "check"}

\* the retry budget the running call was given
BudgetN ==
    IF form = "retry" THEN retry_default
    ELSE IF form = "retry_r" THEN argR
    ELSE strategy.retries

ErrCount(tr) == Cardinality({i \in DOMAIN tr : tr[i].ev = "err"})

SleepCount(tr) == Cardinality({i \in DOMAIN tr : tr[i].ev = "sleep"})

\* at least one invocation was made and every invocation failed
AllFailed(tr) ==
    /\ ErrCount(tr) > 0
    /\ \A i \in DOMAIN tr : tr[i].ev \in {"sleep", "err"}

\* the number of failures the operation had in store when the call started
FailsInStore == iter + ErrCount(trace)

\* ----- C1 -----------------------------------------------------------------
\* C1: when every invocation of the operation fails, a call with budget N
\* (try_call with strategy.retries = N, retry! with retries = N) returns after
\* exactly N+1 invocations, and what it returns is the failure of invocation
\* N+1.
C1_AllFailExhaustsBudget ==
    (pc = "done" /\ form \in TryCallForms \cup RetryForms /\ AllFailed(trace))
        => /\ calls = BudgetN + 1
           /\ ErrCount(trace) = BudgetN + 1
           /\ ~result.ok
           /\ result.at = BudgetN + 1
           /\ result = res

C1_Witness ==
    /\ pc = "done"
    /\ form = "direct"
    /\ opKind = "always_fail"
    /\ strategy.retries = 4
    /\ calls = 5
    /\ result.at = 5

\* ----- C2 -----------------------------------------------------------------
\* C2: try_call on an operation that fails its first k invocations (k <= N)
\* and succeeds afterwards returns Ok from invocation k+1 after exactly k+1
\* invocations, and a success is always the last invocation of the call.
C2_FailsKThenSucceeds ==
    /\ (form \in TryCallForms /\ session = 1 /\ opKind = "succeed_after")
          => FailsInStore = opCount
    /\ (pc = "done" /\ form \in TryCallForms /\ opKind = "succeed_after"
          /\ FailsInStore <= strategy.retries)
          => /\ calls = FailsInStore + 1
             /\ result = Ok(FailsInStore + 1)
             /\ iter = 0
    /\ form \in TryCallForms
          => \A i \in DOMAIN trace : trace[i].ev = "ok" => i = Len(trace)

C2_Witness ==
    /\ pc = "done"
    /\ form = "direct"
    /\ opKind = "succeed_after"
    /\ opCount = 2
    /\ session = 1
    /\ strategy.retries = 4
    /\ calls = 3
    /\ result.ok

\* ----- C3 -----------------------------------------------------------------
\* C3: in every state of a try_call with strategy.retries = N the operation has
\* been invoked at most N+1 times, whatever its outcomes were.
C3_AtMostNPlusOneCalls ==
    form \in TryCallForms => calls <= strategy.retries + 1

C3_Witness ==
    /\ form = "direct"
    /\ opKind = "sometimes_fail"
    /\ strategy.retries = 2
    /\ calls = 3
    /\ pc = "check"
    /\ ~res.ok

\* ----- C4 -----------------------------------------------------------------
\* C4: retryable!(f; retries = N; delay = D) runs try_call with strategy
\* (N, Fixed(D seconds)), so an always failing operation is invoked exactly
\* N+1 times.
C4_RetriesAndDelayHonoured ==
    (form = "retryable_rd" /\ pc = "done" /\ AllFailed(trace))
        => /\ strategy.retries = argR
           /\ strategy.delay = [kind |-> "Fixed", d |-> argD * 1000]
           /\ calls = argR + 1

\* ----- C5 -----------------------------------------------------------------
\* C5: a try_call whose operation always returns reaches its return; it leaves
\* the loop only on a success or on a failure with no retries left, and goes
\* round the loop only on a failure with retries left, which it decrements.
C5_Step ==
    /\ (Attempting /\ pc' = "done")
          => (pc = "check" /\ (res.ok \/ retries = 0))
    /\ (pc = "check" /\ pc' = "sleep")
          => (~res.ok /\ retries > 0 /\ retries' = retries - 1)
    /\ (pc = "check" /\ (res.ok \/ retries = 0)) => pc' = "done"
    /\ Attempting => pc' \in {"sleep", "call", "check", "done", "panicked"}
    /\ (Attempting /\ pc' = "panicked") => opKind = "may_panic"

C5_TerminatesByTheTwoExits ==
    /\ [][C5_Step]_vars
    /\ (Attempting /\ opKind # "may_panic") ~> (pc = "done")

C5_Witness ==
    /\ pc = "done"
    /\ form = "direct"
    /\ opKind = "sometimes_fail"
    /\ strategy.retries = 4
    /\ calls = 3
    /\ result.ok

\* ----- C6 -----------------------------------------------------------------
\* C6: under Fixed(d) every sleep before a retry is d, so after r retries the
\* call has waited r * d in total and at least r * d has elapsed.
C6_FixedDelayTotals ==
    form \in TryCallForms
        => /\ \A i \in DOMAIN trace :
                (trace[i].ev = "sleep" /\ i > 1) => trace[i].d = strategy.delay.d
           /\ pc \in {"check", "done"} => waited = (calls - 1) * strategy.delay.d
           /\ pc = "call" => waited = calls * strategy.delay.d
           /\ elapsed >= waited

C6_Witness ==
    /\ pc = "done"
    /\ form = "retryable_d"
    /\ argD = 3
    /\ opKind = "succeed_after"
    /\ opCount = 2
    /\ result.ok
    /\ waited = 6000
    /\ elapsed >= 6000

\* ----- C7 -----------------------------------------------------------------
\* C7: the first event of a try_call is a sleep of zero followed by the first
\* invocation; a sleep of more than zero comes directly after a failed
\* invocation and directly before the next invocation; nothing follows the
\* invocation that ends the call.
C7_WaitsOnlyBetweenAttempts ==
    form \in TryCallForms
        => /\ Len(trace) >= 1 => trace[1] = [ev |-> "sleep", d |-> 0]
           /\ \A i \in DOMAIN trace :
                (trace[i].ev = "sleep" /\ trace[i].d > 0)
                    => /\ i > 1
                       /\ trace[i - 1].ev = "err"
                       /\ IF i < Len(trace) THEN trace[i + 1].ev # "sleep"
                                            ELSE pc = "call"
           /\ \A i \in DOMAIN trace :
                trace[i].ev = "sleep" => (i < Len(trace) \/ pc = "call")
           /\ pc = "done" => /\ trace[Len(trace)].ev \in {"ok", "err"}
                             /\ waited = (SleepCount(trace) - 1) * strategy.delay.d

C7_Witness ==
    /\ pc = "done"
    /\ form = "direct"
    /\ strategy.delay.d = 1000
    /\ Len(trace) = 6
    /\ trace[3].ev = "sleep"
    /\ trace[3].d = 1000
    /\ trace[6].ev = "err"

\* ----- C8 -----------------------------------------------------------------
\* C8: with strategy.retries = 0 try_call invokes the operation once and
\* returns that result, whichever it is, having waited nothing.
C8_ZeroRetriesSingleCall ==
    (form \in TryCallForms /\ strategy.retries = 0)
        => /\ calls <= 1
           /\ waited = 0
           /\ pc = "done" => /\ calls = 1
                             /\ result = res
                             /\ result.at = 1
                             /\ trace[1] = [ev |-> "sleep", d |-> 0]
                             /\ Len(trace) = 2

C8_Witness ==
    /\ pc = "done"
    /\ form = "direct"
    /\ strategy.retries = 0
    /\ strategy.delay.d = 2000
    /\ calls = 1
    /\ ~result.ok

\* ----- C9 -----------------------------------------------------------------
\* C9: with the default count of 3, retry!(f) and retryable!(f) return the
\* third failure as Err and never invoke the operation a fourth time.
C9_ThirdFailureReturned ==
    form \in {"retry", "retryable"}
        => /\ calls <= 3
           /\ (pc = "done" /\ ~result.ok) => result.at = 3

C11_RetryIsImmediate ==
    /\ form \in RetryForms
          => /\ waited = 0
             /\ elapsed = 0
             /\ SleepCount(trace) = 0
             /\ pc \notin {"sleep", "call", "check"}
             /\ \A i \in DOMAIN trace :
                   (trace[i].ev = "err" /\ i < Len(trace))
                       => trace[i + 1].ev \in {"ok", "err", "panic"}
    /\ form = "retry"
          => /\ retries + ErrCount(trace) \in {3, 4}
             /\ calls <= 4
             /\ (pc = "done" /\ AllFailed(trace)) => calls = 4

C11_Witness ==
    /\ pc = "done"
    /\ form = "retry"
    /\ opKind = "succeed_after"
    /\ ~inline
    /\ opCount = 2
    /\ calls = 3
    /\ result.ok
    /\ waited = 0

\* ----- C12 ----------------------------------------------------------------
\* C12: RetryStrategy::default() is (3, Fixed(2 s)); with_retries(n) sets
\* retries and keeps delay, with_delay(s) sets delay and keeps retries; so a
\* strategy built by hand holds in each field the argument of the last call
\* that set the field, or the default when no call set it.
C12_FieldsHoldLastSetValue ==
    (form = "direct" /\ pc \in {"building", "ready"})
        => /\ strategy.retries \in (IF lastR = {} THEN {3} ELSE lastR)
           /\ strategy.delay.kind = "Fixed"
           /\ strategy.delay.d \in (IF lastD = {} THEN {2000}
                                    ELSE {s * 1000 : s \in lastD})
           /\ DOMAIN strategy = {"retries", "delay"}

C12_Witness ==
    /\ form = "direct"
    /\ pc = "ready"
    /\ lastR = {}
    /\ lastD = {1}
    /\ strategy.retries = 3
    /\ strategy.delay.d = 1000

\* ----- C13 ----------------------------------------------------------------
\* C13: what try_call does after an invocation is a function of whether the
\* result is Ok and of the retries left, never of the failure value: every
\* failure with retries left is retried after the strategy's delay, so runs
\* with the same Ok/Err pattern make the same invocations and sleeps, and a
\* returned Err is always one met with no retries left.
C13_Step ==
    pc = "check"
        => /\ pc' = (IF res.ok \/ retries = 0 THEN "done" ELSE "sleep")
           /\ retries' = (IF ~res.ok /\ retries > 0 THEN retries - 1 ELSE retries)
           /\ delay_time' = (IF ~res.ok /\ retries > 0 THEN strategy.delay.d
                                                       ELSE delay_time)
           /\ <<calls, waited, trace>>' = <<calls, waited, trace>>

C14_SingleExecution == session <= 1

\* C14 as the code has it: try_call borrows the Retryable (&mut self).  The
\* instance a macro builds is dropped after its one call, but on an instance
\* built with Retryable::new a further try_call starts only after the
\* previous one has returned, never while it runs.
C14_Reentry ==
    (session' # session)
        => /\ session' = session + 1
           /\ pc \in {"start", "ready", "done"}
           /\ pc = "start" <=> form' # "direct"
           /\ session >= 1 => (pc = "done" /\ form = "direct" /\ form' = form)

C14_BorrowedNotConsumed ==
    /\ [][C14_Reentry]_vars
    /\ [](form # "direct" => session <= 1)

C14_Witness ==
    /\ form = "direct"
    /\ session = 2
    /\ pc = "done"
    /\ calls = 2
    /\ result.ok

\* ----- C15 ----------------------------------------------------------------
\* C15: a panic of the operation is not caught by try_call: it ends the call
\* at that invocation, with no result returned, no further invocation or
\* sleep, and the retry counter as the failures before it left it.
C15_PanicState ==
    form \in TryCallForms
        => /\ \A i \in DOMAIN trace :
                trace[i].ev = "panic" => (i = Len(trace) /\ pc = "panicked")
           /\ pc = "panicked"
                 => /\ trace[Len(trace)].ev = "panic"
                    /\ result = NoRes
                    /\ retries = strategy.retries - ErrCount(trace)
                    /\ ErrCount(trace) = calls - 1
                    /\ SleepCount(trace) = calls
                    /\ waited = (calls - 1) * strategy.delay.d

C15_PanicPropagates ==
    /\ []C15_PanicState
    /\ [][pc # "panicked"]_vars

C15_Witness ==
    /\ form = "direct"
    /\ pc = "panicked"
    /\ calls = 2
    /\ retries = 2
    /\ strategy.retries = 3
    /\ strategy.delay.d = 1000

\* ----- C16 ----------------------------------------------------------------
\* what Retryable::new(succeed_after!(it), (r, Fixed(0))).try_call() returns,
\* n being the number of the next invocation
RECURSIVE try_call_run(_, _, _)
try_call_run(it, r, n) ==
    LET out == succeed_after(it, n)
    IN  IF out.ok THEN out
        ELSE IF r > 0 THEN try_call_run(it - 1, r - 1, n + 1)
        ELSE out

\* C16: retry!(op; retries = N) makes the invocations and returns the result
\* of Retryable::new(op, (N, Fixed(0))).try_call(), also when op is a
\* stateful closure written in the macro call.
C16_RetryEqualsTryCall ==
    (pc = "done" /\ form \in RetryForms /\ opKind = "succeed_after")
        => /\ result = try_call_run(opCount, BudgetN, 1)
           /\ calls = try_call_run(opCount, BudgetN, 1).at

\* ----- C17 ----------------------------------------------------------------
\* C17: try_call leaves the stored strategy as it is, so every try_call on an
\* instance starts with retries = strategy.retries and a zero delay however
\* many retries the calls before it used, while the operation keeps the state
\* the earlier calls left it in.
C17_Step ==
    /\ pc \notin {"start", "building"} => strategy' = strategy
    /\ (session' # session /\ session >= 1)
          => /\ retries' = strategy.retries
             /\ delay_time' = 0
             /\ iter' = iter

C17_Entry ==
    (form \in TryCallForms /\ pc = "sleep" /\ trace = <<>>)
        => /\ retries = strategy.retries
           /\ delay_time = 0

C17_StrategyUntouched ==
    /\ [][C17_Step]_vars
    /\ []C17_Entry

C17_Witness ==
    /\ form = "direct"
    /\ session = 2
    /\ pc = "sleep"
    /\ trace = <<>>
    /\ opKind = "succeed_after"
    /\ opCount = 4
    /\ iter = 1
    /\ strategy.retries = 2
    /\ retries = 2

\* ----- C18 ----------------------------------------------------------------
\* the failed invocations of this call that were followed by a retry
RetriedFailures ==
    Cardinality({i \in DOMAIN trace :
                    trace[i].ev = "err" /\ (i < Len(trace) \/ pc = "sleep")})

\* C18: during a try_call 0 <= retries <= strategy.retries, and retries is
\* strategy.retries less the failures that were retried; it only ever goes
\* down by one, from a value above zero, after a failed invocation.
C18_Counter ==
    (form \in TryCallForms /\ pc \in {"sleep", "call", "check", "done", "panicked"})
        => /\ 0 <= retries
           /\ retries <= strategy.retries
           /\ retries = strategy.retries - RetriedFailures

C18_Decrement ==
    (form \in TryCallForms /\ retries' < retries)
        => /\ retries > 0
           /\ retries' = retries - 1
           /\ pc = "check"
           /\ ~res.ok

C18_CounterNeverUnderflows ==
    /\ []C18_Counter
    /\ [][C18_Decrement]_vars

C18_Witness ==
    /\ form = "direct"
    /\ pc = "done"
    /\ strategy.retries = 2
    /\ retries = 0
    /\ calls = 3
    /\ ~result.ok

====
